---- MODULE Spec2Model ----
(***************************************************************************)
(* Model of dynamic_crew.py: the plan-generation-and-materialization       *)
(* pipeline.  PromptAnalyzer.analyze turns the language model's raw text   *)
(* into a team design, AgentFactory / TaskFactory / CrewFactory bind it,   *)
(* and DynamicCrewSystem.execute runs the crew.                            *)
(*                                                                         *)
(* A text (a Python str) is a sequence of chunks.  A chunk is an atomic    *)
(* piece of text: one character ("{", "}", a quote, a letter ...), or a    *)
(* word that the code only ever handles whole (the code fence, the word      *)
(* "json", "Researcher" ...).  No chunk is a concatenation of other        *)
(* chunks, so two texts are the same Python string exactly when they are   *)
(* the same sequence.                                                      *)
(***************************************************************************)
EXTENDS Integers, Sequences, FiniteSets, TLC

VARIABLES
  prompt,       \* the goal text given to analyze / execute
  response,     \* response.content: the raw text the language model returned
  doc,          \* the plan document the raw text was written from, or NoDoc
  fence,        \* which code-fence markers wrap the text in the fenced call
  plain,        \* outcome of analyze on the raw text
  fenced,       \* outcome of analyze on the raw text wrapped in fences
  description,  \* a task description given to the placeholder removal
  once,         \* the description after one removal
  twice,        \* the description after two removals
  pc,           \* position of execute
  team_design,  \* execute: the value analyze returned
  agents,       \* create_agents: the dict role -> Agent
  agent,        \* create_agents: the Agent built from the last spec read
  ai,           \* create_agents: number of agent specs read
  tasks,        \* create_tasks: the list of Task objects
  ti,           \* create_tasks: number of task specs read
  crew,         \* the Crew create_crew returned
  kickoffs,     \* the crews the execution engine was started with, in order
  error         \* the exception that left execute, or NoError

vars == <<prompt, response, doc, fence, plain, fenced, description, once, twice,
          pc, team_design, agents, agent, ai, tasks, ti, crew, kickoffs, error>>

\* the variables of the extraction, of the placeholder removal and of execute
extractVars == <<prompt, response, doc, fence, plain, fenced>>
sanitizeVars == <<description, once, twice>>
executeVars == <<pc, team_design, agents, agent, ai, tasks, ti, crew, kickoffs, error>>

-----------------------------------------------------------------------------
(* Bounds of the model. *)

\* longest raw text that is not written from a plan document
MaxJunk == 3
\* longest task description given to the placeholder removal on its own
MaxDesc == 5
\* most agent specs in a plan document
MaxAgents == 2
\* most task specs in a plan document
MaxTasks == 2
\* longest text of a string field that the extraction is tried on
MaxField == 2

-----------------------------------------------------------------------------
(* Text. *)

\* the code-fence marker of line 97, three grave accents, as one chunk
FENCE == "<fence>"
JSONWORD == "json"
QUOTE == "\""
SPACE == " "
NEWLINE == "\n"

Whitespace == {SPACE, NEWLINE}

\* the sequences over S of length at most n
RECURSIVE SeqsUpTo(_, _)
SeqsUpTo(S, n) ==
  IF n = 0 THEN {<<>>}
  ELSE LET shorter == SeqsUpTo(S, n - 1)
       IN  shorter \cup {Append(s, c) : s \in {t \in shorter : Len(t) = n - 1}, c \in S}

Drop(s, n) == SubSeq(s, n + 1, Len(s))

\* the first position from p on that holds a chunk of C, Len(s) + 1 if none
RECURSIVE First(_, _, _)
First(s, C, p) ==
  IF p > Len(s) THEN Len(s) + 1
  ELSE IF s[p] \in C THEN p
  ELSE First(s, C, p + 1)

Min(S) == CHOOSE m \in S : \A o \in S : m <= o
Max(S) == CHOOSE m \in S : \A o \in S : m >= o

\* the first position from p on that holds no whitespace, Len(s) + 1 if none
RECURSIVE SkipWs(_, _)
SkipWs(s, p) ==
  IF p <= Len(s) /\ s[p] \in Whitespace THEN SkipWs(s, p + 1) ELSE p

\* the last position up to p that holds no whitespace, 0 if none
RECURSIVE SkipWsBack(_, _)
SkipWsBack(s, p) ==
  IF p >= 1 /\ s[p] \in Whitespace THEN SkipWsBack(s, p - 1) ELSE p

\* str.strip(): leading and trailing whitespace removed
Strip(s) == SubSeq(s, SkipWs(s, 1), SkipWsBack(s, Len(s)))

\* line 95-96: the first occurrence of the fence followed by json is removed
RemoveFirstJsonFence(s) ==
  LET at == {q \in 1..(Len(s) - 1) : s[q] = FENCE /\ s[q + 1] = JSONWORD}
  IN  IF at = {} THEN s
      ELSE SubSeq(s, 1, Min(at) - 1) \o Drop(s, Min(at) + 1)

\* line 97-98: every occurrence of the fence is removed
RemoveFences(s) == SelectSeq(s, LAMBDA c : c # FENCE)

\* lines 101-103, the regex search: from the first "{" to the last "}"
BraceScan(s) ==
  LET opens  == {q \in 1..Len(s) : s[q] = "{"}
      closes == {q \in 1..Len(s) : s[q] = "}"}
  IN  IF opens # {} /\ closes # {} /\ Min(opens) < Max(closes)
      THEN SubSeq(s, Min(opens), Max(closes))
      ELSE s

\* lines 91-103: the text handed to json.loads
Normalize(s) == BraceScan(RemoveFences(RemoveFirstJsonFence(Strip(s))))

-----------------------------------------------------------------------------
(* JSON values and json.loads.  A value is [t |-> tag, v |-> payload]:       *)
(* "str" with the text, "arr" with the sequence of elements, "obj" with the *)
(* function from keys (texts) to values, "null".                            *)

Str(s) == [t |-> "str", v |-> s]
Arr(e) == [t |-> "arr", v |-> e]
Obj(m) == [t |-> "obj", v |-> m]
Null == [t |-> "null", v |-> <<>>]

IsStr(x) == x.t = "str"
IsArr(x) == x.t = "arr"
IsObj(x) == x.t = "obj"

EmptyMap == [k \in {} |-> Null]
\* d[k] = x on a Python dict read from JSON: a repeated key keeps the last value
Put(m, k, x) == [j \in DOMAIN m \cup {k} |-> IF j = k THEN x ELSE m[j]]
Has(x, k) == IsObj(x) /\ k \in DOMAIN x.v
Get(x, k) == x.v[k]

Fail == [ok |-> FALSE, val |-> Null, next |-> 0]
Ok(x, p) == [ok |-> TRUE, val |-> x, next |-> p]

At(s, p, c) == p <= Len(s) /\ s[p] = c

\* a string literal opening at p: up to the next quote; a raw newline inside
\* a string is a control character, which json.loads rejects
ParseString(s, p) ==
  LET end == First(s, {QUOTE, NEWLINE}, p + 1)
  IN  IF ~At(s, p, QUOTE) \/ ~At(s, end, QUOTE) THEN Fail
      ELSE Ok(Str(SubSeq(s, p + 1, end - 1)), end + 1)

RECURSIVE ParseValue(_, _), ParseMembers(_, _, _), ParseElements(_, _, _)

\* members of an object from p on, after "{" or ","; acc holds those read
ParseMembers(s, p, acc) ==
  LET key == ParseString(s, p)
      colon == SkipWs(s, key.next)
      item == ParseValue(s, SkipWs(s, colon + 1))
      after == SkipWs(s, item.next)
      sofar == Put(acc, key.val.v, item.val)
  IN  IF ~key.ok \/ ~At(s, colon, ":") THEN Fail
      ELSE IF ~item.ok THEN Fail
      ELSE IF At(s, after, "}") THEN Ok(Obj(sofar), after + 1)
      ELSE IF At(s, after, ",") THEN ParseMembers(s, SkipWs(s, after + 1), sofar)
      ELSE Fail

\* elements of an array from p on, after "[" or ","; acc holds those read
ParseElements(s, p, acc) ==
  LET item == ParseValue(s, p)
      after == SkipWs(s, item.next)
      sofar == Append(acc, item.val)
  IN  IF ~item.ok THEN Fail
      ELSE IF At(s, after, "]") THEN Ok(Arr(sofar), after + 1)
      ELSE IF At(s, after, ",") THEN ParseElements(s, SkipWs(s, after + 1), sofar)
      ELSE Fail

ParseValue(s, p) ==
  IF At(s, p, QUOTE) THEN ParseString(s, p)
  ELSE IF At(s, p, "null") THEN Ok(Null, p + 1)
  ELSE IF At(s, p, "{") THEN
    LET q == SkipWs(s, p + 1)
    IN  IF At(s, q, "}") THEN Ok(Obj(EmptyMap), q + 1) ELSE ParseMembers(s, q, EmptyMap)
  ELSE IF At(s, p, "[") THEN
    LET q == SkipWs(s, p + 1)
    IN  IF At(s, q, "]") THEN Ok(Arr(<<>>), q + 1) ELSE ParseElements(s, q, <<>>)
  ELSE Fail

\* json.loads(content): one value, whitespace around it, nothing else;
\* ok = FALSE stands for json.JSONDecodeError
JsonLoads(s) ==
  LET r == ParseValue(s, SkipWs(s, 1))
  IN  IF r.ok /\ SkipWs(s, r.next) = Len(s) + 1 THEN r ELSE Fail

-----------------------------------------------------------------------------
(* PromptAnalyzer.analyze *)

T(word) == <<word>>

\* a Python dict literal: the pairs <<key word, value>> in order
RECURSIVE Dict(_)
Dict(pairs) ==
  IF pairs = <<>> THEN EmptyMap
  ELSE Put(Dict(SubSeq(pairs, 1, Len(pairs) - 1)),
           T(pairs[Len(pairs)][1]), pairs[Len(pairs)][2])

\* as Fallback, with the second task given to a role no agent has
FallbackWrongRole(goal) ==
  Obj(Dict(<<
    <<"agents", Arr(<<
       Obj(Dict(<< <<"role", Str(T("Researcher"))>>, <<"goal", Str(T("goal"))>>,
                   <<"backstory", Str(T("backstory"))>>,
                   <<"tools", Arr(<<Str(T("ExaSearchTool"))>>)>> >>)),
       Obj(Dict(<< <<"role", Str(T("Writer"))>>, <<"goal", Str(T("goal"))>>,
                   <<"backstory", Str(T("backstory"))>>, <<"tools", Arr(<<>>)>> >>)) >>)>>,
    <<"tasks", Arr(<<
       Obj(Dict(<< <<"description", Str(T("Research information about: ") \o goal)>>,
                   <<"expected_output", Str(T("Comprehensive research findings"))>>,
                   <<"agent_role", Str(T("Researcher"))>> >>)),
       Obj(Dict(<< <<"description", Str(T("Create content about: ") \o goal)>>,
                   <<"expected_output", Str(T("Engaging and informative content"))>>,
                   <<"agent_role", Str(T("Content Writer"))>> >>)) >>)>>,
    <<"process", Str(T("sequential"))>> >>))

\* lines 111-139: the minimal valid structure returned when parsing fails
Fallback(goal) ==
  Obj(Dict(<<
    <<"agents", Arr(<<
       Obj(Dict(<< <<"role", Str(T("Researcher"))>>,
                   <<"goal", Str(T("Research information related to the task"))>>,
                   <<"backstory", Str(T("Expert researcher with analytical skills"))>>,
                   <<"tools", Arr(<<Str(T("ExaSearchTool"))>>)>> >>)),
       Obj(Dict(<< <<"role", Str(T("Writer"))>>,
                   <<"goal", Str(T("Create content based on research findings"))>>,
                   <<"backstory", Str(T("Expert writer skilled at creating engaging content"))>>,
                   <<"tools", Arr(<<>>)>> >>)) >>)>>,
    <<"tasks", Arr(<<
       Obj(Dict(<< <<"description", Str(T("Research information about: ") \o goal)>>,
                   <<"expected_output", Str(T("Comprehensive research findings"))>>,
                   <<"agent_role", Str(T("Researcher"))>> >>)),
       Obj(Dict(<< <<"description",
                     Str(T("Create content about: ") \o goal \o T(" based on the research"))>>,
                   <<"expected_output", Str(T("Engaging and informative content"))>>,
                   <<"agent_role", Str(T("Writer"))>> >>)) >>)>>,
    <<"process", Str(T("sequential"))>> >>))

\* the outcome of a call: not made yet, returned a value, or raised
NotCalled == [called |-> FALSE, raised |-> FALSE, value |-> Null]
Returned(x) == [called |-> TRUE, raised |-> FALSE, value |-> x]
Raised(e) == [called |-> TRUE, raised |-> TRUE, value |-> Str(T(e))]

\* as LoadOrFallback, without the except clause
LoadOrRaise(content, goal) ==
  LET r == JsonLoads(content)
  IN  IF r.ok THEN Returned(r.val) ELSE Raised("JSONDecodeError")

\* lines 105-139: try json.loads, except json.JSONDecodeError fall back
LoadOrFallback(content, goal) ==
  LET r == JsonLoads(content)
  IN  IF r.ok THEN Returned(r.val) ELSE Returned(Fallback(goal))

\* lines 88-139 of analyze, on the raw text the language model returned
Analyze(raw, goal) == LoadOrFallback(Normalize(raw), goal)

-----------------------------------------------------------------------------
(* The language model: plan documents written as JSON text. *)

RECURSIVE Dump(_), DumpElements(_), DumpMembers(_, _)

DumpElements(e) ==
  IF Len(e) = 0 THEN <<>>
  ELSE IF Len(e) = 1 THEN Dump(e[1])
  ELSE Dump(e[1]) \o <<",", SPACE>> \o DumpElements(Tail(e))

DumpMembers(m, keys) ==
  LET k == CHOOSE j \in keys : TRUE
      member == <<QUOTE>> \o k \o <<QUOTE, ":", SPACE>> \o Dump(m[k])
  IN  IF keys = {k} THEN member
      ELSE member \o <<",", NEWLINE>> \o DumpMembers(m, keys \ {k})

\* the JSON text of a value (the structure asked for in lines 62-80)
Dump(x) ==
  IF x.t = "str" THEN <<QUOTE>> \o x.v \o <<QUOTE>>
  ELSE IF x.t = "null" THEN <<"null">>
  ELSE IF x.t = "arr" THEN <<"[">> \o DumpElements(x.v) \o <<"]">>
  ELSE IF DOMAIN x.v = {} THEN <<"{", "}">>
  ELSE <<"{">> \o DumpMembers(x.v, DOMAIN x.v) \o <<"}">>

\* an agent spec of the declared schema; tools = NoTools leaves the key out
NoTools == <<"no tools key">>
AgentSpec(role, tools) ==
  Obj(Dict(<< <<"role", Str(role)>>, <<"goal", Str(T("goal"))>>,
              <<"backstory", Str(T("backstory"))>> >>
           \o (IF tools = NoTools THEN <<>>
               ELSE << <<"tools", Arr([q \in 1..Len(tools) |-> Str(T(tools[q]))])>> >>)))

TaskSpec(desc, role) ==
  Obj(Dict(<< <<"description", Str(desc)>>, <<"expected_output", Str(T("output"))>>,
              <<"agent_role", Str(role)>> >>))

\* a plan document; process = NoProcess leaves the key out
NoProcess == [t |-> "absent", v |-> <<>>]
Plan(agentSpecs, taskSpecs, process) ==
  Obj(Dict(<< <<"agents", Arr(agentSpecs)>>, <<"tasks", Arr(taskSpecs)>> >>
           \o (IF process = NoProcess THEN <<>> ELSE << <<"process", process>> >>)))

NoDoc == Null

-----------------------------------------------------------------------------
(* TaskFactory.create_tasks, line 197: the placeholder removal               *)
(* re.sub(r'{[^}]*}', '', description).  Matches are found left to right: a  *)
(* match opens at the first "{" that has a "}" after it and closes at the    *)
(* first "}" after it; the search goes on behind the match.                  *)

\* as Sanitize, removing the first match only (count=1)
SanitizeFirstOnly(s) ==
  LET open  == First(s, {"{"}, 1)
      close == First(s, {"}"}, open + 1)
  IN  IF close > Len(s) THEN s
      ELSE SubSeq(s, 1, open - 1) \o Drop(s, close)

RECURSIVE Sanitize(_)
Sanitize(s) ==
  LET open  == First(s, {"{"}, 1)
      close == First(s, {"}"}, open + 1)
  IN  IF close > Len(s) THEN s
      ELSE SubSeq(s, 1, open - 1) \o Sanitize(Drop(s, close))

NotCleaned == <<"not cleaned">>

DescAlphabet == {"{", "}", "a"}

InitSanitize ==
  /\ description \in SeqsUpTo(DescAlphabet, MaxDesc)
  /\ once = NotCleaned /\ twice = NotCleaned

\* the removal applied to the description
CleanOnce ==
  /\ once = NotCleaned
  /\ once' = Sanitize(description)
  /\ UNCHANGED <<description, twice, extractVars, executeVars>>

\* the removal applied to its own result
CleanTwice ==
  /\ once # NotCleaned /\ twice = NotCleaned
  /\ twice' = Sanitize(once)
  /\ UNCHANGED <<description, once, extractVars, executeVars>>

-----------------------------------------------------------------------------
(* Inputs. *)

Goals == {T("tidal energy"), <<"a", "{", "topic", "}", "{">>}

JunkAlphabet == {FENCE, JSONWORD, "{", "}", QUOTE, SPACE, "null", "x"}
JunkTexts == SeqsUpTo(JunkAlphabet, MaxJunk)

FieldAlphabet == {FENCE, JSONWORD, "{", "}", SPACE, "x"}
FieldTexts == SeqsUpTo(FieldAlphabet, MaxField)

\* plan documents of the declared schema, with every content of two fields
ExtractDocs ==
  {Plan(<<AgentSpec(T("Researcher"), <<"ExaSearchTool">>)>>,
        <<TaskSpec(d, T("Researcher"))>>, p) :
     d \in FieldTexts,
     p \in {NoProcess, Str(T("sequential")), Str(<<FENCE, JSONWORD>>)}}

\* the text wrapped in code-fence markers: a leading fence, with or without
\* the word json, and a trailing fence
Wrap(kind, text) ==
  IF kind = "json" THEN <<FENCE, JSONWORD>> \o text \o <<FENCE>>
  ELSE IF kind = "json lines" THEN <<FENCE, JSONWORD, NEWLINE>> \o text \o <<NEWLINE, FENCE>>
  ELSE <<FENCE>> \o text \o <<FENCE>>

FenceKinds == {"json", "json lines", "bare"}

\* values of the variables a specification does not use
IdleExtract ==
  /\ doc = NoDoc /\ fence = "bare" /\ plain = NotCalled /\ fenced = NotCalled
IdleSanitize ==
  /\ description = <<>> /\ once = NotCleaned /\ twice = NotCleaned
IdleExecute ==
  /\ pc = "idle" /\ team_design = Null /\ agents = <<>> /\ agent = Null /\ ai = 0
  /\ tasks = <<>> /\ ti = 0 /\ crew = Null /\ kickoffs = <<>> /\ error = "none"


-----------------------------------------------------------------------------
(* Python values used by the factories. *)

\* an insertion-ordered dict as the sequence of its <<key, value>> pairs
DictHas(d, k) == \E q \in 1..Len(d) : d[q][1] = k
DictGet(d, k) == d[CHOOSE q \in 1..Len(d) : d[q][1] = k][2]
\* d[k] = x: a key already present keeps its place and takes the new value
DictSet(d, k, x) ==
  IF DictHas(d, k) THEN [q \in 1..Len(d) |-> IF d[q][1] = k THEN <<k, x>> ELSE d[q]]
  ELSE Append(d, <<k, x>>)
DictKeys(d) == {d[q][1] : q \in 1..Len(d)}
\* list(d.values())
DictValues(d) == [q \in 1..Len(d) |-> d[q][2]]

RECURSIVE KeyItems(_)
KeyItems(keys) ==
  IF keys = {} THEN <<>>
  ELSE LET k == CHOOSE j \in keys : TRUE IN <<Str(k)>> \o KeyItems(keys \ {k})

\* can a for loop run over x, and over which items: the elements of a list,
\* the characters of a str, the keys of a dict; None is not iterable
Iterable(x) == x.t \in {"arr", "str", "obj"}
Items(x) ==
  IF IsArr(x) THEN x.v
  ELSE IF IsStr(x) THEN [q \in 1..Len(x.v) |-> Str(<<x.v[q]>>)]
  ELSE KeyItems(DOMAIN x.v)

\* can x be a dict key or be looked up in a dict: lists and dicts cannot
Hashable(x) == x.t \in {"str", "null"}

\* x[key] for a str key: the exception it raises, or "none"
SubscriptError(x, key) ==
  IF ~IsObj(x) THEN "TypeError"
  ELSE IF ~Has(x, T(key)) THEN "KeyError"
  ELSE "none"

\* the first exception among those of a sequence of steps
RECURSIVE FirstError(_)
FirstError(errs) ==
  IF errs = <<>> THEN "none"
  ELSE IF errs[1] # "none" THEN errs[1]
  ELSE FirstError(Tail(errs))

UpperLetters == <<"A", "B", "C", "D", "E", "F", "G", "H", "I", "J", "K", "L", "M",
                  "N", "O", "P", "Q", "R", "S", "T", "U", "V", "W", "X", "Y", "Z">>
LowerLetters == <<"a", "b", "c", "d", "e", "f", "g", "h", "i", "j", "k", "l", "m",
                  "n", "o", "p", "q", "r", "s", "t", "u", "v", "w", "x", "y", "z">>

\* str.lower(), character by character (the word chunks of the model are
\* lower-case or never reach it)
LowerChar(c) ==
  IF \E q \in 1..26 : UpperLetters[q] = c
  THEN LowerLetters[CHOOSE q \in 1..26 : UpperLetters[q] = c]
  ELSE c
Lower(s) == [q \in 1..Len(s) |-> LowerChar(s[q])]

\* the literal "hierarchical" of line 216
hierarchical == <<"h", "i", "e", "r", "a", "r", "c", "h", "i", "c", "a", "l">>

-----------------------------------------------------------------------------
(* AgentFactory *)

\* lines 146-150: tool name -> tool instance
tools_map ==
  (T("ExaSearchTool") :> "exa_search_tool")
    @@ (T("WebsiteSearchTool") :> "WebsiteSearchTool()")
    @@ (T("FileReadTool") :> "FileReadTool()")

\* as ResolveTools, leaving the loop at the first name not in tools_map
RECURSIVE ResolveToolsBreak(_, _)
ResolveToolsBreak(names, found) ==
  IF names = <<>> THEN found
  ELSE IF IsStr(names[1]) /\ names[1].v \in DOMAIN tools_map
       THEN ResolveToolsBreak(Tail(names), Append(found, tools_map[names[1].v]))
       ELSE found

\* lines 163-167: the tools of the names found in tools_map, in the order read
RECURSIVE ResolveTools(_, _)
ResolveTools(names, found) ==
  IF names = <<>> THEN found
  ELSE IF IsStr(names[1]) /\ names[1].v \in DOMAIN tools_map
       THEN ResolveTools(Tail(names), Append(found, tools_map[names[1].v]))
       ELSE ResolveTools(Tail(names), found)

\* lines 156-167: the exception reading one agent spec raises, or "none"
AgentSpecError(spec) ==
  FirstError(<<SubscriptError(spec, "role"), SubscriptError(spec, "goal"),
               SubscriptError(spec, "backstory"),
               IF ~Has(spec, T("tools")) THEN "none"
               ELSE IF ~Iterable(Get(spec, T("tools"))) THEN "TypeError"
               ELSE IF \E q \in 1..Len(Items(Get(spec, T("tools")))) :
                         ~Hashable(Items(Get(spec, T("tools")))[q]) THEN "TypeError"
               ELSE "none",
               IF IsObj(spec) /\ Has(spec, T("role")) /\ ~Hashable(Get(spec, T("role")))
               THEN "TypeError" ELSE "none">>)

\* lines 161-176: the Agent built from a spec
NewAgent(spec) ==
  [role |-> Get(spec, T("role")), goal |-> Get(spec, T("goal")),
   backstory |-> Get(spec, T("backstory")),
   tools |-> IF Has(spec, T("tools"))
             THEN ResolveTools(Items(Get(spec, T("tools"))), <<>>) ELSE <<>>]

\* line 178: agents[role] = agent
StoreAgent(d, a) == DictSet(d, a.role, a)

-----------------------------------------------------------------------------
(* TaskFactory *)

\* lines 190-202: the exception reading one task spec raises, or "none"
TaskSpecError(spec, ags) ==
  FirstError(<<SubscriptError(spec, "agent_role"),
               IF IsObj(spec) /\ Has(spec, T("agent_role"))
                  /\ ~Hashable(Get(spec, T("agent_role"))) THEN "TypeError"
               ELSE IF IsObj(spec) /\ Has(spec, T("agent_role"))
                  /\ ~DictHas(ags, Get(spec, T("agent_role"))) THEN "ValueError"
               ELSE "none",
               SubscriptError(spec, "description"),
               IF IsObj(spec) /\ Has(spec, T("description"))
                  /\ ~IsStr(Get(spec, T("description"))) THEN "TypeError" ELSE "none",
               SubscriptError(spec, "expected_output")>>)

\* lines 195-204: the Task built from a spec
NewTask(spec, ags) ==
  [description |-> Sanitize(Get(spec, T("description")).v),
   expected_output |-> Get(spec, T("expected_output")),
   agent |-> DictGet(ags, Get(spec, T("agent_role")))]

-----------------------------------------------------------------------------
(* CrewFactory *)

\* line 250: team_design.get("process", "sequential")
ProcessType(design) ==
  IF Has(design, T("process")) THEN Get(design, T("process")) ELSE Str(T("sequential"))

\* as SelectProcess, comparing without lower()
SelectProcessExact(process_type) ==
  IF process_type = hierarchical THEN "Process.hierarchical"
  ELSE "Process.sequential"

\* lines 215-217: Process.sequential unless the lowered text is "hierarchical"
SelectProcess(process_type) ==
  IF Lower(process_type) = hierarchical THEN "Process.hierarchical"
  ELSE "Process.sequential"

\* lines 220-225
NewCrew(ags, tks, process_type) ==
  [agents |-> DictValues(ags), tasks |-> tks, process |-> SelectProcess(process_type.v)]

-----------------------------------------------------------------------------
(* analyze as a function of the raw text, called on a text and on the same  *)
(* text wrapped in fences.                                                   *)

InitExtract ==
  /\ prompt \in Goals
  /\ \/ doc \in ExtractDocs /\ response = Dump(doc)
     \/ doc = NoDoc /\ response \in JunkTexts
  /\ fence \in FenceKinds
  /\ plain = NotCalled /\ fenced = NotCalled
  /\ IdleSanitize /\ IdleExecute

ExtractPlain ==
  /\ ~plain.called
  /\ plain' = Analyze(response, prompt)
  /\ UNCHANGED <<prompt, response, doc, fence, fenced, sanitizeVars, executeVars>>

ExtractFenced ==
  /\ ~fenced.called
  /\ fenced' = Analyze(Wrap(fence, response), prompt)
  /\ UNCHANGED <<prompt, response, doc, fence, plain, sanitizeVars, executeVars>>

NextExtract == ExtractPlain \/ ExtractFenced

SpecExtract == InitExtract /\ [][NextExtract]_vars

InitClean ==
  /\ InitSanitize
  /\ prompt = <<>> /\ response = <<>> /\ IdleExtract /\ IdleExecute

NextClean == CleanOnce \/ CleanTwice

SpecSanitize == InitClean /\ [][NextClean]_vars

-----------------------------------------------------------------------------
(* DynamicCrewSystem.execute *)

\* process values a plan document may carry
Capitalised == <<"H", "i", "e", "r", "a", "r", "c", "h", "i", "c", "a", "l">>
ProcessValues ==
  {NoProcess, Null, Str(hierarchical), Str(Capitalised),
   Str([q \in 1..Len(hierarchical) |-> UpperLetters[CHOOSE l \in 1..26 :
                                          LowerLetters[l] = hierarchical[q]]]),
   Str(<<>>), Str(T("foo"))}

AgentChoices ==
  {AgentSpec(T("Researcher"), <<"ExaSearchTool">>),
   AgentSpec(T("Researcher"), <<"FileReadTool", "NoSuchTool", "WebsiteSearchTool">>),
   AgentSpec(T("Writer"), NoTools)}

TaskChoices ==
  {TaskSpec(<<"find", "{", "topic", "}", "{">>, T("Researcher")),
   TaskSpec(T("write"), T("Writer")),
   TaskSpec(T("edit"), T("Editor"))}

\* the plan documents the language model answers with
ExecuteDocs ==
  {Plan(a, t, p) : a \in SeqsUpTo(AgentChoices, MaxAgents) \ {<<>>},
                   t \in SeqsUpTo(TaskChoices, MaxTasks) \ {<<>>},
                   p \in ProcessValues}

\* the chunks of the answers that are not written from a plan document
ExecuteJunk == {FENCE, "{", "}", QUOTE, "null", "x"}

Init ==
  /\ \/ doc \in ExecuteDocs /\ response = Dump(doc) /\ prompt = T("tidal energy")
     \/ doc = NoDoc /\ response \in SeqsUpTo(ExecuteJunk, MaxJunk) /\ prompt \in Goals
  /\ fence = "bare" /\ plain = NotCalled /\ fenced = NotCalled
  /\ IdleSanitize
  /\ pc = "analyze" /\ team_design = Null /\ agents = <<>> /\ agent = Null /\ ai = 0
  /\ tasks = <<>> /\ ti = 0 /\ crew = Null /\ kickoffs = <<>> /\ error = "none"

Raise(e) == pc' = "raised" /\ error' = e

\* line 239: team_design = self.prompt_analyzer.analyze(prompt); line 243 then
\* reads team_design["agents"] and create_agents starts its loop over it
execute_analyze ==
  /\ pc = "analyze"
  /\ LET out == Analyze(response, prompt)
         err == FirstError(<<SubscriptError(out.value, "agents"),
                             IF Has(out.value, T("agents"))
                                /\ ~Iterable(Get(out.value, T("agents")))
                             THEN "TypeError" ELSE "none">>)
     IN  IF out.raised THEN Raise(out.value.v[1]) /\ UNCHANGED team_design
         ELSE /\ team_design' = out.value
              /\ IF err # "none" THEN Raise(err)
                 ELSE pc' = "create_agents" /\ UNCHANGED error
  /\ UNCHANGED <<agents, agent, ai, tasks, ti, crew, kickoffs, extractVars, sanitizeVars>>

AgentSpecs == Items(Get(team_design, T("agents")))
TaskSpecs == Items(Get(team_design, T("tasks")))

\* lines 154-178: one turn of the loop of create_agents
create_agents_step ==
  /\ pc = "create_agents" /\ ai < Len(AgentSpecs)
  /\ LET spec == AgentSpecs[ai + 1]
     IN  IF AgentSpecError(spec) # "none"
         THEN Raise(AgentSpecError(spec)) /\ UNCHANGED <<agents, agent, ai>>
         ELSE /\ agent' = NewAgent(spec)
              /\ agents' = StoreAgent(agents, NewAgent(spec))
              /\ ai' = ai + 1
              /\ UNCHANGED <<pc, error>>
  /\ UNCHANGED <<team_design, tasks, ti, crew, kickoffs, extractVars, sanitizeVars>>

\* line 180: create_agents returns; line 246 reads team_design["tasks"] and
\* create_tasks starts its loop over it
create_agents_return ==
  /\ pc = "create_agents" /\ ai = Len(AgentSpecs)
  /\ LET err == FirstError(<<SubscriptError(team_design, "tasks"),
                             IF Has(team_design, T("tasks"))
                                /\ ~Iterable(Get(team_design, T("tasks")))
                             THEN "TypeError" ELSE "none">>)
     IN  IF err # "none" THEN Raise(err) ELSE pc' = "create_tasks" /\ UNCHANGED error
  /\ UNCHANGED <<team_design, agents, agent, ai, tasks, ti, crew, kickoffs, extractVars, sanitizeVars>>

\* as create_tasks_step, with a spec whose role is unknown skipped
create_tasks_skip ==
  /\ pc = "create_tasks" /\ ti < Len(TaskSpecs)
  /\ LET spec == TaskSpecs[ti + 1]
     IN  IF TaskSpecError(spec, agents) = "ValueError"
         THEN ti' = ti + 1 /\ UNCHANGED <<tasks, pc, error>>
         ELSE IF TaskSpecError(spec, agents) # "none"
         THEN Raise(TaskSpecError(spec, agents)) /\ UNCHANGED <<tasks, ti>>
         ELSE /\ tasks' = Append(tasks, NewTask(spec, agents))
              /\ ti' = ti + 1
              /\ UNCHANGED <<pc, error>>
  /\ UNCHANGED <<team_design, agents, agent, ai, crew, kickoffs, extractVars, sanitizeVars>>

\* as create_tasks_step, with the new task put at the head of the list
create_tasks_prepend ==
  /\ pc = "create_tasks" /\ ti < Len(TaskSpecs)
  /\ LET spec == TaskSpecs[ti + 1]
     IN  IF TaskSpecError(spec, agents) # "none"
         THEN Raise(TaskSpecError(spec, agents)) /\ UNCHANGED <<tasks, ti>>
         ELSE /\ tasks' = <<NewTask(spec, agents)>> \o tasks
              /\ ti' = ti + 1
              /\ UNCHANGED <<pc, error>>
  /\ UNCHANGED <<team_design, agents, agent, ai, crew, kickoffs, extractVars, sanitizeVars>>

\* lines 188-206: one turn of the loop of create_tasks
create_tasks_step ==
  /\ pc = "create_tasks" /\ ti < Len(TaskSpecs)
  /\ LET spec == TaskSpecs[ti + 1]
     IN  IF TaskSpecError(spec, agents) # "none"
         THEN Raise(TaskSpecError(spec, agents)) /\ UNCHANGED <<tasks, ti>>
         ELSE /\ tasks' = Append(tasks, NewTask(spec, agents))
              /\ ti' = ti + 1
              /\ UNCHANGED <<pc, error>>
  /\ UNCHANGED <<team_design, agents, agent, ai, crew, kickoffs, extractVars, sanitizeVars>>

\* line 208: create_tasks returns; lines 249-251 and 213-225: create_crew
create_crew ==
  /\ pc = "create_tasks" /\ ti = Len(TaskSpecs)
  /\ IF ~IsStr(ProcessType(team_design))
     THEN Raise("AttributeError") /\ UNCHANGED crew
     ELSE /\ crew' = NewCrew(agents, tasks, ProcessType(team_design))
          /\ pc' = "kickoff" /\ UNCHANGED error
  /\ UNCHANGED <<team_design, agents, agent, ai, tasks, ti, kickoffs, extractVars, sanitizeVars>>

\* lines 254-256: the execution engine is started with the crew
kickoff ==
  /\ pc = "kickoff"
  /\ kickoffs' = Append(kickoffs, crew)
  /\ pc' = "returned"
  /\ UNCHANGED <<team_design, agents, agent, ai, tasks, ti, crew, error, extractVars, sanitizeVars>>

execute ==
  \/ execute_analyze
  \/ create_agents_step
  \/ create_agents_return
  \/ create_tasks_step
  \/ create_crew
  \/ kickoff

Next == execute

Spec == Init /\ [][Next]_vars

-----------------------------------------------------------------------------
(* Properties. *)

\* the raw text cannot be parsed, after normalization and the brace scan
Unparseable(raw) == ~JsonLoads(Normalize(raw)).ok

Field(x, key) == Get(x, T(key))

\* x is the default plan for the goal: Researcher with ExaSearchTool, Writer
\* without tools, one task for each in that order, process "sequential"
IsDefaultPlan(x, goal) ==
  /\ IsObj(x) /\ DOMAIN x.v = {T("agents"), T("tasks"), T("process")}
  /\ Field(x, "process") = Str(T("sequential"))
  /\ Len(Field(x, "agents").v) = 2 /\ Len(Field(x, "tasks").v) = 2
  /\ Field(Field(x, "agents").v[1], "role") = Str(T("Researcher"))
  /\ Field(Field(x, "agents").v[1], "tools") = Arr(<<Str(T("ExaSearchTool"))>>)
  /\ Field(Field(x, "agents").v[2], "role") = Str(T("Writer"))
  /\ Field(Field(x, "agents").v[2], "tools") = Arr(<<>>)
  /\ Field(Field(x, "tasks").v[1], "agent_role") = Str(T("Researcher"))
  /\ Field(Field(x, "tasks").v[1], "description")
       = Str(T("Research information about: ") \o goal)
  /\ Field(Field(x, "tasks").v[2], "agent_role") = Str(T("Writer"))
  /\ Field(Field(x, "tasks").v[2], "description")
       = Str(T("Create content about: ") \o goal \o T(" based on the research"))
  /\ x = Fallback(goal)

C2_RoundTrip ==
  (plain.called /\ doc # NoDoc) => (~plain.raised /\ plain.value = doc)

\* C3: for every raw text, analyze on the text wrapped in code-fence markers
\* gives the same outcome as analyze on the text itself, for the same goal.
C3_FenceInvariance ==
  (plain.called /\ fenced.called) => fenced = plain

\* C6: removing the placeholders twice gives the same text as removing them
\* once, for every description.
C6_SanitizeIdempotent ==
  twice # NotCleaned => twice = once

C6_Witness ==
  /\ description = <<"{", "{", "a", "}", "}">>
  /\ once = <<"}">> /\ twice = <<"}">>

\* the team design has the lists of agent specs and task specs
HasSpecs ==
  /\ Has(team_design, T("agents")) /\ IsArr(Field(team_design, "agents"))
  /\ Has(team_design, T("tasks")) /\ IsArr(Field(team_design, "tasks"))

\* create_agents has read every agent spec
AgentsBound == HasSpecs /\ ai = Len(AgentSpecs)

RoleOf(spec) == Field(spec, "role")
TaskRole(q) == Field(TaskSpecs[q], "agent_role")

\* two agent specs of the team design declare the same role
DuplicateRoles ==
  /\ HasSpecs
  /\ \E q, r \in 1..Len(AgentSpecs) : q < r /\ RoleOf(AgentSpecs[q]) = RoleOf(AgentSpecs[r])

\* C4: create_agents fails with DuplicateRoleError whenever two agent specs
\* declare the same role; it never returns a mapping in which a later spec
\* has overwritten an earlier one.
C4_DuplicateRoleRejected ==
  DuplicateRoles =>
    /\ pc \in {"create_agents", "raised"}
    /\ pc = "raised" => error = "DuplicateRoleError"

\* the positions of the task specs whose role is no key of the agent mapping
UnknownRoles == {q \in 1..Len(TaskSpecs) : ~DictHas(agents, TaskRole(q))}

\* C5: if a task spec names a role that is no key of the bound agent mapping,
\* create_tasks raises the unknown-role error at the first such spec, the
\* error leaves execute, and the execution engine is never started, also
\* when earlier task specs were bound.
C5_UnknownRoleAborts ==
  (AgentsBound /\ pc # "create_agents" /\ UnknownRoles # {}) =>
    /\ kickoffs = <<>>
    /\ pc \in {"create_tasks", "raised"}
    /\ pc = "create_tasks" => ti < Min(UnknownRoles)
    /\ pc = "raised" => (error = "ValueError" /\ ti = Min(UnknownRoles) - 1)

C5_Witness ==
  /\ AgentsBound /\ UnknownRoles = {2}
  /\ pc = "raised" /\ error = "ValueError"
  /\ Len(tasks) = 1 /\ kickoffs = <<>>

\* the text is word in some mix of upper and lower case
EqualsIgnoringCase(s, word) ==
  /\ Len(s) = Len(word)
  /\ \A q \in 1..Len(word) :
       \/ s[q] = word[q]
       \/ \E l \in 1..26 : LowerLetters[l] = word[q] /\ UpperLetters[l] = s[q]

ProcessAbsent == ~Has(team_design, T("process"))
ProcessText == IsStr(Field(team_design, "process"))

KnownTools(spec) ==
  IF ~Has(spec, T("tools")) THEN <<>>
  ELSE LET kept == SelectSeq(Field(spec, "tools").v,
                             LAMBDA n : n.v \in {T("ExaSearchTool"), T("WebsiteSearchTool"),
                                                  T("FileReadTool")})
       IN  [q \in 1..Len(kept) |-> tools_map[kept[q].v]]

\* C9: no agent spec makes create_agents raise because of a tool name: the
\* agent built from each spec carries the declared tools the registry knows,
\* in the declared order, it is stored under its role, and every role read
\* so far is a key of the mapping.
C9_UnknownToolsSkipped ==
  HasSpecs =>
    /\ pc = "raised" => ai = Len(AgentSpecs)
    /\ ai >= 1 =>
         /\ agent.tools = KnownTools(AgentSpecs[ai])
         /\ agent.role = RoleOf(AgentSpecs[ai])
         /\ DictGet(agents, RoleOf(AgentSpecs[ai])) = agent
         /\ \A q \in 1..ai : DictHas(agents, RoleOf(AgentSpecs[q]))

C9_Witness ==
  /\ HasSpecs /\ ai = 2 /\ ai = Len(AgentSpecs)
  /\ Has(AgentSpecs[ai], T("tools"))
  /\ Field(AgentSpecs[ai], "tools")
       = Arr(<<Str(T("FileReadTool")), Str(T("NoSuchTool")), Str(T("WebsiteSearchTool"))>>)
  /\ agent.tools = <<"FileReadTool()", "WebsiteSearchTool()">>
  /\ pc = "returned"

\* C10: when every task spec names a role that is a key of the agent mapping,
\* create_tasks returns one task per spec in the order of the specs, each with
\* the agent bound under the role of its spec, the expected output of its spec
\* and the description of its spec without placeholders; the execution engine
\* is started with that list in that order.
C10_TasksInOrder ==
  (AgentsBound /\ pc # "create_agents" /\ UnknownRoles = {}) =>
    /\ pc = "raised" => (error = "AttributeError" /\ ti = Len(TaskSpecs))
    /\ Len(tasks) = ti
    /\ \A q \in 1..ti :
         /\ tasks[q].agent = DictGet(agents, TaskRole(q))
         /\ tasks[q].expected_output = Field(TaskSpecs[q], "expected_output")
         /\ tasks[q].description = Sanitize(Field(TaskSpecs[q], "description").v)
    /\ pc \in {"kickoff", "returned"} => (ti = Len(TaskSpecs) /\ crew.tasks = tasks)
    /\ pc = "returned" => kickoffs = <<crew>>

C10_Witness ==
  /\ AgentsBound /\ doc # NoDoc /\ pc = "returned"
  /\ Len(tasks) = 2 /\ tasks[1].agent.role = Str(T("Writer"))
  /\ tasks[2].agent.role = Str(T("Researcher"))
  /\ tasks[2].description = <<"find", "{">>
  /\ kickoffs[1].tasks = tasks

====
